---- MODULE Spec2Model ----
(***************************************************************************)
(* A model of froggy-rand (src/src/lib.rs): a stateless random number      *)
(* generator.  A FroggyRand value holds a 64-bit seed; every draw is       *)
(* split_mix_64(seed + hash(key)).                                         *)
(*                                                                         *)
(* TLC's integers are 32 bits wide, so a u64 is modelled as its eight      *)
(* bytes, least significant first (a tuple of eight numbers in 0..255),    *)
(* and the wrapping arithmetic of the source is carried out on the bytes.  *)
(***************************************************************************)
EXTENDS Integers, Sequences, FiniteSets

\* ------------------------------------------------------------ 64-bit words

\* Number of bytes of a u64.
NLimbs == 64 \div 8

\* Radix of one byte.
Base == 2 ^ 8

Limbs == 1..NLimbs

\* The element of a one-element set.  TLC evaluates an operator's argument
\* again at every use, and a function it is about to apply only where applied;
\* binding a value through a one-element set evaluates it once and in full.
The(S) == CHOOSE v \in S : TRUE

\* The byte of weight Base^(i-1) of x, 0 beyond the word.
Limb(x0, i) == The({ IF i \in Limbs THEN x[i] ELSE 0 : x \in {x0} })

U64Zero == [i \in Limbs |-> 0]

\* u64::MAX
U64Max == [i \in Limbs |-> Base - 1]

\* A natural number below 2^31 as a u64: `n as u64`.
U64OfNat(n) == [i \in Limbs |-> IF i <= 4 THEN (n \div (Base ^ (i - 1))) % Base ELSE 0]

\* Whether x < 2^23, so that its value fits comfortably in a TLC integer.
IsSmall(x0) == The({ x[3] < 128 /\ \A i \in 4..NLimbs : x[i] = 0 : x \in {x0} })

\* The value of a small x as a TLC integer.
NatOfU64(x0) == The({ x[1] + Base * x[2] + Base * Base * x[3] : x \in {x0} })

\* The carries of a + b: c[i] is the carry into byte i.
AddCarry(a0, b0) ==
    The({ LET c[i \in 1..(NLimbs + 1)] ==
                  IF i = 1 THEN 0 ELSE (a[i - 1] + b[i - 1] + c[i - 1]) \div Base
          IN  [i \in 1..(NLimbs + 1) |-> c[i]]
          : a \in {a0}, b \in {b0} })

\* u64::wrapping_add, Wrapping + Wrapping: addition modulo 2^64.
wrapping_add(a0, b0) ==
    The({ [i \in Limbs |-> (a[i] + b[i] + c[i]) % Base]
          : a \in {a0}, b \in {b0}, c \in {AddCarry(a0, b0)} })

\* Whether a + b does not fit 64 bits.
add_overflows(a0, b0) ==
    The({ AddCarry(a, b)[NLimbs + 1] = 1 : a \in {a0}, b \in {b0} })

\* The borrows of a - b: c[i] is the borrow out of the bytes below i.
SubBorrow(a0, b0) ==
    The({ LET c[i \in 1..(NLimbs + 1)] ==
                  IF i = 1 THEN 0
                  ELSE IF a[i - 1] - b[i - 1] - c[i - 1] < 0 THEN 1 ELSE 0
          IN  [i \in 1..(NLimbs + 1) |-> c[i]]
          : a \in {a0}, b \in {b0} })

\* Subtraction modulo 2^64.
wrapping_sub(a0, b0) ==
    The({ [i \in Limbs |-> (a[i] - b[i] - c[i] + Base) % Base]
          : a \in {a0}, b \in {b0}, c \in {SubBorrow(a0, b0)} })

\* a < b as unsigned integers: a - b borrows out of the top byte.
U64Less(a0, b0) ==
    The({ SubBorrow(a, b)[NLimbs + 1] = 1 : a \in {a0}, b \in {b0} })

\* Wrapping * Wrapping: multiplication modulo 2^64 (schoolbook columns).
RECURSIVE ColumnSum(_, _, _, _)
ColumnSum(a, b, k, i) ==
    IF i > k THEN 0 ELSE a[i] * b[k + 1 - i] + ColumnSum(a, b, k, i + 1)

wrapping_mul(a0, b0) ==
    The({ LET acc[k \in Limbs] ==
                  IF k = 1 THEN col[1] ELSE col[k] + (acc[k - 1] \div Base)
          IN  [k \in Limbs |-> acc[k] % Base]
          : col \in { The({ [k \in Limbs |-> ColumnSum(a, b, k, 1)]
                            : a \in {a0}, b \in {b0} }) } })

\* Bitwise exclusive or of two n-bit numbers.
RECURSIVE XorBits(_, _, _)
XorBits(x, y, n) ==
    IF n = 0 THEN 0
    ELSE ((x + y) % 2) + 2 * XorBits(x \div 2, y \div 2, n - 1)

\* a ^ b on u64.
xor(a0, b0) ==
    The({ [i \in Limbs |-> XorBits(a[i], b[i], 8)] : a \in {a0}, b \in {b0} })

\* a >> k on u64: logical shift right, 0 <= k < 64.
shr(a0, k) ==
    The({ LET q == k \div 8
              r == k % 8
          IN  [i \in Limbs |->
                  (Limb(a, i + q) \div (2 ^ r))
                  + (Limb(a, i + q + 1) % (2 ^ r)) * (2 ^ (8 - r))]
          : a \in {a0} })

\* x % m for a small modulus m (IsSmall): long division from the top byte
\* down, the remainder carried.
RECURSIVE ModFrom(_, _, _, _)
ModFrom(x, m, i, r) ==
    IF i = 0 THEN r ELSE ModFrom(x, m, i - 1, (r * Base + x[i]) % m)

ModSmall(x0, m) == The({ ModFrom(x, m, NLimbs, 0) : x \in {x0} })

\* One step of binary long division by m: the remainder r < m takes in one
\* more bit.  2r + bit - m is below m, so it is exact modulo 2^64 even when
\* 2r + bit itself does not fit.
ModStep(r0, bit, m) ==
    The({ IF r[NLimbs] >= 128 \/ ~U64Less(t, m) THEN wrapping_sub(t, m) ELSE t
          : r \in {r0}, t \in {wrapping_add(wrapping_add(r0, r0), U64OfNat(bit))} })

\* The bits n down to 0 of byte b taken into the remainder r0.
RECURSIVE ModByte(_, _, _, _)
ModByte(b, m, n, r0) ==
    IF n < 0 THEN r0
    ELSE The({ ModByte(b, m, n - 1, r)
               : r \in {ModStep(r0, (b \div (2 ^ n)) % 2, m)} })

\* x % m for any modulus m # 0: binary long division, from the top byte down.
RECURSIVE ModBits(_, _, _, _)
ModBits(x, m, i, r0) ==
    IF i = 0 THEN r0
    ELSE The({ ModBits(x, m, i - 1, r) : r \in {ModByte(x[i], m, 7, r0)} })

\* x % m on u64, m # 0.
rem(x0, m0) ==
    The({ IF IsSmall(m) THEN U64OfNat(ModSmall(x, NatOfU64(m)))
          ELSE ModBits(x, m, NLimbs, U64Zero)
          : x \in {x0}, m \in {m0} })

\* ------------------------------------------------------------ split_mix_64

\* 0x9E3779B97F4A7C15
GoldenGamma == <<21, 124, 74, 127, 185, 121, 55, 158>>

\* 0xBF58476D1CE4E5B9
MixMul1 == <<185, 229, 228, 28, 109, 71, 88, 191>>

\* 0x94D049BB133111EB
MixMul2 == <<235, 17, 49, 19, 187, 73, 208, 148>>

\* One round of the mixer: (z ^ (z >> k)) * m.
MixRound(z0, k, m) == The({ wrapping_mul(xor(z, shr(z, k)), m) : z \in {z0} })

\* split_mix_64 with the first shift off by one (31 for 30).
split_mix_64_shift31(index) ==
    LET z0 == wrapping_add(index, GoldenGamma)
        z1 == MixRound(z0, 31, MixMul1)
        z2 == MixRound(z1, 27, MixMul2)
    IN  The({ xor(z, shr(z, 31)) : z \in {z2} })

split_mix_64(index) ==
    LET z0 == wrapping_add(index, GoldenGamma)
        z1 == MixRound(z0, 30, MixMul1)
        z2 == MixRound(z1, 27, MixMul2)
    IN  The({ xor(z, shr(z, 31)) : z \in {z2} })

\* ------------------------------------------------------------ f32

\* An f32 is [k, s, m, e]: kind "fin", "inf" or "nan"; sign s (1 negative);
\* a finite value is (-1)^s * m * 2^e with m = 0, or 2^23 <= m < 2^24, or
\* (subnormal) m < 2^23 and e = -149.

\* Number of significand bits of an f32.
MantBits == 24

\* The exponent of the least subnormal, 2^-149.
MinExp == 0 - 149

\* The largest exponent of a 24-bit significand: values reach 2^128 above it.
MaxExp == 104

F32Zero(s) == [k |-> "fin", s |-> s, m |-> 0, e |-> 0]

F32Inf(s) == [k |-> "inf", s |-> s, m |-> 0, e |-> 0]

F32NaN == [k |-> "nan", s |-> 0, m |-> 0, e |-> 0]

\* The number of bits of n: the least L with n < 2^L.
RECURSIVE BitLen(_)
BitLen(n) == IF n = 0 THEN 0 ELSE 1 + BitLen(n \div 2)

Max2(a, b) == IF a >= b THEN a ELSE b

Min2(a, b) == IF a <= b THEN a ELSE b

\* The f32 nearest to M * 2^e (ties to even), M < 2^31.  sticky says that the
\* exact value lies strictly above M * 2^e, by less than 2^e.
RoundPack(s, M0, e, sticky) ==
    The({ IF M = 0 THEN F32Zero(s)
          ELSE LET drop == Max2(BitLen(M) - MantBits, MinExp - e)
               IN  IF drop <= 0
                   THEN LET up == Min2(MantBits - BitLen(M), e - MinExp)
                        IN  IF e - up > MaxExp THEN F32Inf(s)
                            ELSE [k |-> "fin", s |-> s, m |-> M * (2 ^ up), e |-> e - up]
                   ELSE LET q == M \div (2 ^ drop)
                            r == M % (2 ^ drop)
                            half == 2 ^ (drop - 1)
                            roundUp == \/ r > half
                                       \/ r = half /\ (sticky \/ q % 2 = 1)
                            q1 == IF roundUp THEN q + 1 ELSE q
                            carry == q1 = 2 ^ MantBits
                            m2 == IF carry THEN q1 \div 2 ELSE q1
                            e2 == IF carry THEN e + drop + 1 ELSE e + drop
                        IN  IF m2 = 0 THEN F32Zero(s)
                            ELSE IF e2 > MaxExp THEN F32Inf(s)
                            ELSE [k |-> "fin", s |-> s, m |-> m2, e |-> e2]
          : M \in {M0} })

\* `n as f32` for an unsigned n < 2^31.
F32OfNat(n) == RoundPack(0, n, 0, FALSE)

\* An integer literal as f32: 3.0, -2.0.
F32OfInt(n) == IF n < 0 THEN RoundPack(1, 0 - n, 0, FALSE) ELSE RoundPack(0, n, 0, FALSE)

\* -a
f32_neg(a) == IF a.k = "nan" THEN a ELSE [a EXCEPT !.s = 1 - a.s]

\* The quotient bits of r / d continued for n more bits: <<q, r>> with the
\* quotient so far q and the remainder r < d.
RECURSIVE DivBits(_, _, _, _)
DivBits(q, r, d, n) ==
    IF n = 0 THEN <<q, r>>
    ELSE IF 2 * r >= d THEN DivBits(2 * q + 1, 2 * r - d, d, n - 1)
    ELSE DivBits(2 * q, 2 * r, d, n - 1)

\* Quotient bits kept beyond the integer part of ma / mb.
DivExtra == 26

\* a / b
f32_div(a0, b0) ==
    The({ IF a.k = "nan" \/ b.k = "nan" THEN F32NaN
          ELSE IF a.k = "inf"
               THEN IF b.k = "inf" THEN F32NaN ELSE F32Inf((a.s + b.s) % 2)
          ELSE IF b.k = "inf" THEN F32Zero((a.s + b.s) % 2)
          ELSE IF b.m = 0
               THEN IF a.m = 0 THEN F32NaN ELSE F32Inf((a.s + b.s) % 2)
          ELSE IF a.m = 0 THEN F32Zero((a.s + b.s) % 2)
          ELSE The({ RoundPack((a.s + b.s) % 2, qr[1], a.e - b.e - DivExtra, qr[2] # 0)
                     : qr \in {DivBits(a.m \div b.m, a.m % b.m, b.m, DivExtra)} })
          : a \in {a0}, b \in {b0} })

\* Half the significand width: a significand is split in two 12-bit halves.
HalfBits == 12

\* Bits of the 48-bit product dropped before rounding (kept as sticky).
MulDrop == 18

\* a * b
f32_mul(a0, b0) ==
    The({ IF a.k = "nan" \/ b.k = "nan" THEN F32NaN
          ELSE IF a.k = "inf" \/ b.k = "inf"
               THEN IF (a.k = "fin" /\ a.m = 0) \/ (b.k = "fin" /\ b.m = 0)
                    THEN F32NaN ELSE F32Inf((a.s + b.s) % 2)
          ELSE IF a.m = 0 \/ b.m = 0 THEN F32Zero((a.s + b.s) % 2)
          ELSE LET H == 2 ^ HalfBits
                   a1 == a.m \div H
                   a0l == a.m % H
                   b1 == b.m \div H
                   b0l == b.m % H
                   lo == a0l * b0l
                   mid == a1 * b0l + a0l * b1 + (lo \div H)
                   top == a1 * b1 + (mid \div H)
                   low == (mid % H) * H + (lo % H)
                   D == 2 ^ MulDrop
               IN  RoundPack((a.s + b.s) % 2,
                             top * (2 ^ (MantBits - MulDrop)) + (low \div D),
                             a.e + b.e + MulDrop, low % D # 0)
          : a \in {a0}, b \in {b0} })

\* Guard bits kept below the significands while adding.
GuardBits == 3

\* big + small for finite nonzero values with big.e >= small.e.
AddAligned(big, small) ==
    LET G == 2 ^ GuardBits
        d == big.e - small.e
        A == big.m * G
        B == IF d >= MantBits + GuardBits THEN 1
             ELSE LET full == small.m * G
                      kept == full \div (2 ^ d)
                  IN  IF full % (2 ^ d) # 0 /\ kept % 2 = 0 THEN kept + 1 ELSE kept
        S == (IF big.s = 1 THEN 0 - A ELSE A) + (IF small.s = 1 THEN 0 - B ELSE B)
    IN  IF S = 0 THEN F32Zero(0)
        ELSE IF S < 0 THEN RoundPack(1, 0 - S, big.e - GuardBits, FALSE)
        ELSE RoundPack(0, S, big.e - GuardBits, FALSE)

\* a + b
f32_add(a0, b0) ==
    The({ IF a.k = "nan" \/ b.k = "nan" THEN F32NaN
          ELSE IF a.k = "inf"
               THEN IF b.k = "inf" /\ b.s # a.s THEN F32NaN ELSE a
          ELSE IF b.k = "inf" THEN b
          ELSE IF a.m = 0 /\ b.m = 0 THEN F32Zero(IF a.s = 1 /\ b.s = 1 THEN 1 ELSE 0)
          ELSE IF a.m = 0 THEN b
          ELSE IF b.m = 0 THEN a
          ELSE IF a.e >= b.e THEN AddAligned(a, b) ELSE AddAligned(b, a)
          : a \in {a0}, b \in {b0} })

\* a - b
f32_sub(a, b) == f32_add(a, f32_neg(b))

\* ------------------------------------------------------------ key hashing

\* A key is the sequence of 64-bit words its fields serialise to, in field
\* order: the tuple (x, i) serialises to the words of x followed by i.
\* The hasher (mod hasher, Lookup3Hasher) folds the words into a digest.

\* Lookup3Hasher::default(): the initial hasher state (0xCBF29CE484222325).
HasherDefault == <<37, 35, 34, 132, 228, 156, 242, 203>>

\* The multiplier of one write (0x00000100000001B3).
HasherPrime == <<179, 1, 0, 0, 0, 1, 0, 0>>

\* Hasher::write of one word into state h.
HasherWrite(h, w) == wrapping_mul(xor(h, w), HasherPrime)

\* Hasher::finish.
HasherFinish(h) == h

RECURSIVE HashWords(_, _, _)
HashWords(h0, ws, n) ==
    IF n > Len(ws) THEN h0
    ELSE HashWords(The({ HasherWrite(h, ws[n]) : h \in {h0} }), ws, n + 1)

\* fn hash<T : Hash>(x : T) -> u64
hash(x0) == The({ HasherFinish(HashWords(HasherDefault, x, 1)) : x \in {x0} })

\* ------------------------------------------------------------ FroggyRand

\* FroggyRand::new
new(seed) == [seed |-> seed]

\* FroggyRand::from_hash
from_hash(x) == new(hash(x))

\* FroggyRand::subrand: the key is the tuple (x, self.seed).
subrand(self, x) == from_hash(Append(x, self.seed))

\* FroggyRand::gen
gen(self, x) ==
    LET h == hash(x)
        index == wrapping_add(self.seed, h)
    IN  split_mix_64(index)

\* ------------------------------------------------------------ usize

\* The build decides two things the source leaves open: whether integer
\* overflow panics (overflow_checks, on in a debug build and off in a release
\* build) and the width of usize (4 bytes on a 32-bit target such as wasm32,
\* 8 bytes on a 64-bit target).  A usize is held as a u64 below 2^(8 * bytes).
Builds == [overflow_checks : BOOLEAN, usize_bytes : {4, 8}]

\* A call's outcome: a returned value, or a panic and its cause.
Ok(v) == [ok |-> TRUE, v |-> v, why |-> "none"]

Panic(why) == [ok |-> FALSE, v |-> <<>>, why |-> why]

\* usize::MAX
UsizeMax(b) == [i \in Limbs |-> IF i <= b.usize_bytes THEN Base - 1 ELSE 0]

\* `v as usize`: the low bytes of v.
as_usize(v0, b) == The({ [i \in Limbs |-> IF i <= b.usize_bytes THEN v[i] ELSE 0] : v \in {v0} })

\* a + c on usize: panics on overflow when the build checks, wraps otherwise.
usize_add(a0, c0, b) ==
    The({ IF (add_overflows(a, c) \/ as_usize(sum, b) # sum) /\ b.overflow_checks
          THEN Panic("add_overflow")
          ELSE Ok(as_usize(sum, b))
          : a \in {a0}, c \in {c0}, sum \in {wrapping_add(a0, c0)} })

\* a - c on usize: panics on overflow when the build checks, wraps otherwise.
usize_sub(a0, c0, b) ==
    The({ IF U64Less(a, c) /\ b.overflow_checks
          THEN Panic("sub_overflow")
          ELSE Ok(as_usize(wrapping_sub(a, c), b))
          : a \in {a0}, c \in {c0} })

\* a % m on usize or u64: a zero divisor panics in every build.
checked_rem(a0, m0) ==
    The({ IF m = U64Zero THEN Panic("rem_by_zero") ELSE Ok(rem(a0, m)) : m \in {m0} })

\* ------------------------------------------------------------ operations

\* 1_000_000, the resolution of gen_unit.
Million == 1000000

\* gen_unit dividing by 999_999.0, the largest numerator, for 1_000_000.0.
gen_unit_999999(self, x) ==
    f32_div(F32OfNat(NatOfU64(rem(gen(self, x), U64OfNat(Million)))),
            F32OfNat(Million - 1))

\* FroggyRand::gen_unit
gen_unit(self, x) ==
    f32_div(F32OfNat(NatOfU64(rem(gen(self, x), U64OfNat(Million)))), F32OfNat(Million))

\* FroggyRand::gen_range
gen_range(self, x, min, max) ==
    f32_add(min, f32_mul(gen_unit(self, x), f32_sub(max, min)))

\* u32::MAX as u64
U32Max == [i \in Limbs |-> IF i <= 4 THEN Base - 1 ELSE 0]

\* choose reducing the draw with `as u32` (modulo 2^32) for % u32::MAX.
choose_u32(self, x, choices, b) ==
    The({ IF ~i.ok THEN [ok |-> FALSE, v |-> <<>>, why |-> i.why, idx |-> <<>>]
          ELSE IF ~U64Less(i.v, U64OfNat(Len(choices)))
          THEN [ok |-> FALSE, v |-> <<>>, why |-> "index_out_of_bounds", idx |-> i.v]
          ELSE [ok |-> TRUE, v |-> choices[NatOfU64(i.v) + 1], why |-> "none", idx |-> i.v]
          : i \in { The({ checked_rem(as_usize(index, b), U64OfNat(Len(choices)))
                          : index \in { The({ [k \in Limbs |-> IF k <= 4 THEN g[k] ELSE 0]
                                              : g \in {gen(self, x)} }) } }) } })

\* choose taking index 0 of an empty slice instead of dividing by its length.
choose_or_zero(self, x, choices, b) ==
    The({ IF ~i.ok THEN [ok |-> FALSE, v |-> <<>>, why |-> i.why, idx |-> <<>>]
          ELSE IF ~U64Less(i.v, U64OfNat(Len(choices)))
          THEN [ok |-> FALSE, v |-> <<>>, why |-> "index_out_of_bounds", idx |-> i.v]
          ELSE [ok |-> TRUE, v |-> choices[NatOfU64(i.v) + 1], why |-> "none", idx |-> i.v]
          : i \in { The({ IF Len(choices) = 0 THEN Ok(U64Zero)
                          ELSE checked_rem(as_usize(index, b), U64OfNat(Len(choices)))
                          : index \in {rem(gen(self, x), U32Max)} }) } })

\* FroggyRand::choose.  The outcome carries the index read as well as the
\* element: [ok, v, why, idx], idx a u64.
choose(self, x, choices, b) ==
    The({ IF ~i.ok THEN [ok |-> FALSE, v |-> <<>>, why |-> i.why, idx |-> <<>>]
          ELSE IF ~U64Less(i.v, U64OfNat(Len(choices)))
          THEN [ok |-> FALSE, v |-> <<>>, why |-> "index_out_of_bounds", idx |-> i.v]
          ELSE [ok |-> TRUE, v |-> choices[NatOfU64(i.v) + 1], why |-> "none", idx |-> i.v]
          : i \in { The({ checked_rem(as_usize(index, b), U64OfNat(Len(choices)))
                          : index \in {rem(gen(self, x), U32Max)} }) } })

\* The loop of gen_froggy from draw i on: sum += gen_range((&x, i), gen_min, gen_max).
RECURSIVE froggy_sum(_, _, _, _, _, _, _)
froggy_sum(self, x, gen_min, gen_max, n, i, sum0) ==
    IF i >= n THEN sum0
    ELSE The({ froggy_sum(self, x, gen_min, gen_max, n, i + 1, sum)
               : sum \in {f32_add(sum0, gen_range(self, Append(x, U64OfNat(i)),
                                                  gen_min, gen_max))} })

\* gen_froggy with an integer-style division: n = 0 is refused.
gen_froggy_checked(self, x, min, max, n) ==
    IF n = 0 THEN Panic("divide_by_zero")
    ELSE The({ Ok(froggy_sum(self, x, gen_min, gen_max, n, 0, F32Zero(0)))
               : gen_min \in {f32_div(min, F32OfNat(n))},
                 gen_max \in {f32_div(max, F32OfNat(n))} })

\* FroggyRand::gen_froggy
gen_froggy(self, x, min, max, n) ==
    The({ Ok(froggy_sum(self, x, gen_min, gen_max, n, 0, F32Zero(0)))
          : gen_min \in {f32_div(min, F32OfNat(n))},
            gen_max \in {f32_div(max, F32OfNat(n))} })

\* FroggyRand::gen_usize_range
gen_usize_range(self, x, min, max, b) ==
    The({ IF ~one_plus_max.ok THEN one_plus_max
          ELSE The({ IF ~range.ok THEN range
                     ELSE The({ IF ~r.ok THEN r ELSE usize_add(min, r.v, b)
                                : r \in {checked_rem(as_usize(gen(self, x), b), range.v)} })
                     : range \in {usize_sub(one_plus_max.v, min, b)} })
          : one_plus_max \in {usize_add(U64OfNat(1), max, b)} })

\* A swap that copies element j over element i and forgets element i.
swap_clobber(xs, i, j) ==
    IF i >= Len(xs) \/ j >= Len(xs) THEN Panic("index_out_of_bounds")
    ELSE Ok([xs EXCEPT ![i + 1] = xs[j + 1]])

\* <[X]>::swap: panics when an index is out of bounds.
swap(xs, i, j) ==
    IF i >= Len(xs) \/ j >= Len(xs) THEN Panic("index_out_of_bounds")
    ELSE Ok([xs EXCEPT ![i + 1] = xs[j + 1], ![j + 1] = xs[i + 1]])

\* 255, the modulus of gen_byte.
ByteModulus == 255

\* `v as u8`: the low byte of v.
as_u8(v0) == The({ v[1] : v \in {v0} })

\* gen_byte with the modulus 256 for 255.
gen_byte_256(self, x) == as_u8(rem(gen(self, x), U64OfNat(ByteModulus + 1)))

\* FroggyRand::gen_byte
gen_byte(self, x) == as_u8(rem(gen(self, x), U64OfNat(ByteModulus)))

\* `seed as u64` for an i32: sign-extended.
i32_as_u64(n) == IF n >= 0 THEN U64OfNat(n) ELSE wrapping_sub(U64Zero, U64OfNat(0 - n))

\* FroggyRand::gen_perf
gen_perf(self, seed) ==
    LET index == wrapping_add(self.seed, i32_as_u64(seed))
    IN  split_mix_64(index)

\* FroggyRand::gen_unit_perf
gen_unit_perf(self, seed) ==
    f32_div(F32OfNat(NatOfU64(rem(gen_perf(self, seed), U64OfNat(Million)))),
            F32OfNat(Million))

\* ------------------------------------------------------------ inputs

\* The string "test" of the repository's tests, as the word it serialises to.
TestTag == <<116, 101, 115, 116, 0, 0, 0, 0>>

\* The keys ("test", 0) and ("test", 1) of the repository's tests.
Keys == { <<TestTag, U64OfNat(id)>> : id \in {0, 1} }

\* The seed of the repository's tests.
Seed100 == U64OfNat(100)

\* 0xCD215BC43B0D5DF0: the seed for which gen(("test", 0)) is
\* 0xFFFD727F00028D7F, a value that is 254 modulo 255, 999999 modulo 1000000
\* and 2^32 - 2 modulo 2^32 - 1; seed + hash(key) wraps for it.
SeedEdge == <<240, 93, 13, 59, 196, 91, 33, 205>>

SeedSamples == {Seed100, SeedEdge}

\* Longest slice passed to choose and shuffle.
MaxLen == 3

\* Largest n passed to gen_froggy.
MaxN == 2

\* The slice of length len that choose and shuffle are called on.
Buffer(len) == [k \in 1..len |-> 10 * k]

\* The (min, max) pairs passed to gen_range and gen_froggy.
FloatPairs == { <<F32OfInt(0), F32OfInt(1)>>, <<F32OfInt(0 - 3), F32OfInt(5)>> }

\* The i32 arguments passed to gen_perf and gen_unit_perf.
I32Samples == {0 - 1, 0, 1}

\* The usize arguments passed to gen_usize_range.
UsizeSamples(b) == {U64Zero, U64OfNat(1), UsizeMax(b)}

\* ------------------------------------------------------------ state

\* build  the build of the program (Builds), fixed for a run
\* rng    the FroggyRand values held by the caller: "a", and its copy "b"
\* made   the seed each was constructed with
\* first  per key, the first result of gen on a or b, and which of them drew it
\* pc     the caller: "idle", "shuffle" (inside the loop of shuffle), "done"
\* call   the call in progress or just finished, with its arguments
\* ret    the outcome of the call that finished
\* xs     the slice handed to shuffle
\* loop   shuffle's loop: the index i, the inclusive end of its range, the
\*        last index j drawn and the number of iterations run
VARIABLES build, rng, made, first, pc, call, ret, xs, loop

vars == <<build, rng, made, first, pc, call, ret, xs, loop>>

Insts == {"a", "b"}

NoCall == [op |-> "none"]

NoRet == Ok(<<>>)

NoLoop == [i |-> 0, end |-> U64Zero, j |-> 0, steps |-> 0]

NoFirst == [v |-> <<>>, by |-> "none"]

\* let a = FroggyRand::new(seed); let b = a;
Init ==
    /\ build \in Builds
    /\ \E seed \in SeedSamples :
          /\ rng = [h \in Insts |-> new(seed)]
          /\ made = [h \in Insts |-> seed]
    /\ first = [k \in Keys |-> NoFirst]
    /\ pc = "idle"
    /\ call = NoCall
    /\ ret = NoRet
    /\ xs = <<>>
    /\ loop = NoLoop

\* A call that neither touches the slice nor the generators finished with r.
Finish(c, r) ==
    /\ pc' = "done"
    /\ call' = c
    /\ ret' = r
    /\ UNCHANGED <<build, rng, made, first, xs, loop>>

\* FroggyRand::new(seed)
New(seed) ==
    /\ pc = "idle"
    /\ Finish([op |-> "new", seed |-> seed], Ok(new(seed)))

\* FroggyRand::from_hash(x)
FromHash(x) ==
    /\ pc = "idle"
    /\ Finish([op |-> "from_hash", x |-> x], Ok(from_hash(x)))

\* h.subrand(x)
Subrand(h, x) ==
    /\ pc = "idle"
    /\ Finish([op |-> "subrand", self |-> h, x |-> x], Ok(subrand(rng[h], x)))

\* gen as a stateful generator would do it: the draw advances the seed.
GenStateful(h, x) ==
    /\ pc = "idle"
    /\ \E v \in {gen(rng[h], x)} :
          /\ pc' = "done"
          /\ call' = [op |-> "gen", self |-> h, x |-> x]
          /\ ret' = Ok(v)
          /\ first' = IF first[x].by = "none"
                      THEN [first EXCEPT ![x] = [v |-> v, by |-> h]]
                      ELSE first
          /\ rng' = [rng EXCEPT ![h] = new(v)]
    /\ UNCHANGED <<build, made, xs, loop>>

\* h.gen(x)
Gen(h, x) ==
    /\ pc = "idle"
    /\ \E v \in {gen(rng[h], x)} :
          /\ pc' = "done"
          /\ call' = [op |-> "gen", self |-> h, x |-> x]
          /\ ret' = Ok(v)
          /\ first' = IF first[x].by = "none"
                      THEN [first EXCEPT ![x] = [v |-> v, by |-> h]]
                      ELSE first
    /\ UNCHANGED <<build, rng, made, xs, loop>>

\* h.gen_unit(x)
GenUnit(h, x) ==
    /\ pc = "idle"
    /\ Finish([op |-> "gen_unit", self |-> h, x |-> x], Ok(gen_unit(rng[h], x)))

\* h.gen_range(x, min, max)
GenRange(h, x, min, max) ==
    /\ pc = "idle"
    /\ Finish([op |-> "gen_range", self |-> h, x |-> x, min |-> min, max |-> max],
              Ok(gen_range(rng[h], x, min, max)))

\* h.choose(x, choices)
Choose(h, x, choices) ==
    /\ pc = "idle"
    /\ Finish([op |-> "choose", self |-> h, x |-> x, choices |-> choices],
              choose(rng[h], x, choices, build))

\* h.gen_froggy(x, min, max, n)
GenFroggy(h, x, min, max, n) ==
    /\ pc = "idle"
    /\ Finish([op |-> "gen_froggy", self |-> h, x |-> x, min |-> min, max |-> max,
               n |-> n],
              gen_froggy(rng[h], x, min, max, n))

\* h.gen_usize_range(x, min, max)
GenUsizeRange(h, x, min, max) ==
    /\ pc = "idle"
    /\ Finish([op |-> "gen_usize_range", self |-> h, x |-> x, min |-> min,
               max |-> max],
              gen_usize_range(rng[h], x, min, max, build))

\* h.shuffle(x, xs0): the range 0..=xs.len()-2 is built, and the loop entered
\* (an inclusive range of unsigned numbers from 0 is never empty).
Shuffle(h, x, xs0) ==
    /\ pc = "idle"
    /\ call' = [op |-> "shuffle", self |-> h, x |-> x, xs |-> xs0]
    /\ xs' = xs0
    /\ \E end \in {usize_sub(U64OfNat(Len(xs0)), U64OfNat(2), build)} :
          IF end.ok
          THEN /\ pc' = "shuffle"
               /\ loop' = [i |-> 0, end |-> end.v, j |-> 0, steps |-> 0]
               /\ ret' = NoRet
          ELSE /\ pc' = "done"
               /\ loop' = NoLoop
               /\ ret' = end
    /\ UNCHANGED <<build, rng, made, first>>

\* The outcome of one iteration of shuffle's loop at index i: the index j
\* drawn, and the slice after the swap.
shuffle_body(self, x, s, i, b) ==
    The({ IF ~top.ok THEN top
          ELSE The({ IF ~j.ok THEN j
                     ELSE The({ IF ~sw.ok THEN sw
                                ELSE Ok([j |-> NatOfU64(j.v), xs |-> sw.v])
                                : sw \in {IF IsSmall(j.v) THEN swap(s, i, NatOfU64(j.v))
                                          ELSE Panic("index_out_of_bounds")} })
                     : j \in {gen_usize_range(self, Append(x, U64OfNat(i)),
                                              U64OfNat(i), top.v, b)} })
          : top \in {usize_sub(U64OfNat(Len(s)), U64OfNat(1), b)} })

\* One iteration of shuffle's loop.
ShuffleStep ==
    /\ pc = "shuffle"
    /\ \E r \in {shuffle_body(rng[call.self], call.x, xs, loop.i, build)} :
          IF ~r.ok
          THEN /\ pc' = "done"
               /\ ret' = r
               /\ UNCHANGED <<xs, loop>>
          ELSE /\ xs' = r.v.xs
               /\ IF U64OfNat(loop.i) = loop.end
                  THEN /\ pc' = "done"
                       /\ ret' = Ok(<<>>)
                       /\ loop' = [loop EXCEPT !.j = r.v.j, !.steps = loop.steps + 1]
                  ELSE /\ pc' = "shuffle"
                       /\ ret' = ret
                       /\ loop' = [loop EXCEPT !.i = loop.i + 1, !.j = r.v.j,
                                                !.steps = loop.steps + 1]
    /\ UNCHANGED <<build, rng, made, first, call>>

\* h.gen_byte(x)
GenByte(h, x) ==
    /\ pc = "idle"
    /\ Finish([op |-> "gen_byte", self |-> h, x |-> x], Ok(gen_byte(rng[h], x)))

\* h.gen_perf(seed)
GenPerf(h, seed) ==
    /\ pc = "idle"
    /\ Finish([op |-> "gen_perf", self |-> h, seed |-> seed], Ok(gen_perf(rng[h], seed)))

\* h.gen_unit_perf(seed)
GenUnitPerf(h, seed) ==
    /\ pc = "idle"
    /\ Finish([op |-> "gen_unit_perf", self |-> h, seed |-> seed],
              Ok(gen_unit_perf(rng[h], seed)))

\* The caller is done with the outcome and goes on to its next statement.
Return ==
    /\ pc = "done"
    /\ pc' = "idle"
    /\ call' = NoCall
    /\ ret' = NoRet
    /\ xs' = <<>>
    /\ loop' = NoLoop
    /\ UNCHANGED <<build, rng, made, first>>

Next ==
    \/ \E seed \in SeedSamples : New(seed)
    \/ \E x \in Keys : FromHash(x)
    \/ \E h \in Insts, x \in Keys : Subrand(h, x)
    \/ \E h \in Insts, x \in Keys : Gen(h, x)
    \/ \E h \in Insts, x \in Keys : GenUnit(h, x)
    \/ \E h \in Insts, x \in Keys, p \in FloatPairs : GenRange(h, x, p[1], p[2])
    \/ \E h \in Insts, x \in Keys, len \in 0..MaxLen : Choose(h, x, Buffer(len))
    \/ \E h \in Insts, x \in Keys, p \in FloatPairs, n \in 0..MaxN :
          GenFroggy(h, x, p[1], p[2], n)
    \/ \E h \in Insts, x \in Keys, min \in UsizeSamples(build), max \in UsizeSamples(build) :
          GenUsizeRange(h, x, min, max)
    \/ \E h \in Insts, x \in Keys, len \in 0..MaxLen : Shuffle(h, x, Buffer(len))
    \/ ShuffleStep
    \/ \E h \in Insts, x \in Keys : GenByte(h, x)
    \/ \E h \in Insts, seed \in I32Samples : GenPerf(h, seed)
    \/ \E h \in Insts, seed \in I32Samples : GenUnitPerf(h, seed)
    \/ Return

Spec == Init /\ [][Next]_vars

\* ------------------------------------------------------------ reference arithmetic

\* The claims below state results in plain modular arithmetic.  To compare
\* them with the byte-wise arithmetic above, a u64 is also read as its 64
\* bits, and the operations are defined again on bits.

BitIdx == 0..63

\* The bits of x, bit 0 the least significant.
Bits(x0) == The({ [n \in BitIdx |-> (x[(n \div 8) + 1] \div (2 ^ (n % 8))) % 2] : x \in {x0} })

\* The u64 with bits p.
RECURSIVE ByteOfBits(_, _, _)
ByteOfBits(p, i, n) ==
    IF n = 8 THEN 0 ELSE p[8 * (i - 1) + n] * (2 ^ n) + ByteOfBits(p, i, n + 1)

OfBits(p0) == The({ [i \in Limbs |-> ByteOfBits(p, i, 0)] : p \in {p0} })

\* The bits of c[0] + 2 c[1] + 4 c[2] + ... modulo 2^64, each c[n] below 2^20.
RECURSIVE CarryBits(_, _, _, _)
CarryBits(c, n, carry, out) ==
    IF n > 63 THEN out
    ELSE CarryBits(c, n + 1, (c[n] + carry) \div 2, Append(out, (c[n] + carry) % 2))

Normalise(c0) ==
    The({ [n \in BitIdx |-> out[n + 1]]
          : out \in { The({ CarryBits(c, 0, 0, <<>>) : c \in {c0} }) } })

\* (p + q) mod 2^64
RefAdd(p0, q0) == The({ Normalise([n \in BitIdx |-> p[n] + q[n]]) : p \in {p0}, q \in {q0} })

\* (p * q) mod 2^64
RECURSIVE Convolve(_, _, _, _)
Convolve(p, q, n, i) ==
    IF i > n THEN 0 ELSE p[i] * q[n - i] + Convolve(p, q, n, i + 1)

RefMul(p0, q0) ==
    The({ Normalise([n \in BitIdx |-> Convolve(p, q, n, 0)]) : p \in {p0}, q \in {q0} })

\* p xor q
RefXor(p0, q0) == The({ [n \in BitIdx |-> (p[n] + q[n]) % 2] : p \in {p0}, q \in {q0} })

\* p >> k
RefShr(p0, k) == The({ [n \in BitIdx |-> IF n + k <= 63 THEN p[n + k] ELSE 0] : p \in {p0} })

\* mix64 of the specification, on bits.
RefMix64(p0) ==
    The({ RefXor(z3, RefShr(z3, 31))
          : z3 \in { The({ RefMul(RefXor(z2, RefShr(z2, 27)), Bits(MixMul2))
                          : z2 \in { The({ RefMul(RefXor(z1, RefShr(z1, 30)), Bits(MixMul1))
                                          : z1 \in {RefAdd(p0, Bits(GoldenGamma))} }) } }) } })

\* The sum of the bytes of x: congruent to x modulo 255, as 256 = 1 mod 255.
RECURSIVE ByteSum(_, _)
ByteSum(x, i) == IF i > NLimbs THEN 0 ELSE x[i] + ByteSum(x, i + 1)

\* g mod 255
RefMod255(g0) == The({ ByteSum(g, 1) % 255 : g \in {g0} })

\* The low (k = 0) or high (k = 1) 32-bit half of g, as a u64.
Half(g0, k) == The({ [i \in Limbs |-> IF i <= 4 THEN g[i + 4 * k] ELSE 0] : g \in {g0} })

\* t - (2^32 - 1) if t >= 2^32 - 1, else t.
Reduce32(t0) == The({ IF U64Less(t, U32Max) THEN t ELSE wrapping_sub(t, U32Max) : t \in {t0} })

\* g mod (2^32 - 1): 2^32 = 1 modulo 2^32 - 1, so g = high + low.
RefModU32Max(g) == Reduce32(Reduce32(wrapping_add(Half(g, 0), Half(g, 1))))

\* g mod 2^32
RefModPow32(g) == Half(g, 0)

\* The draw a finished or running call is about: gen(key) on its instance.
Drawn == gen(rng[call.self], call.x)

\* The number of indices of s holding e.
Count(s, e) == Cardinality({k \in 1..Len(s) : s[k] = e})

\* s and t hold the same elements, each as often.
SameMultiset(s, t) ==
    /\ Len(s) = Len(t)
    /\ \A k \in 1..Len(s) : Count(s, s[k]) = Count(t, s[k])

\* a < 1 for an f32 a.
F32BelowOne(a) == a.k = "fin" /\ (a.m = 0 \/ a.s = 1 \/ BitLen(a.m) + a.e <= 0)

\* 2^n as a u64, n < 64.
Pow2U64(n) == [i \in Limbs |-> IF i = (n \div 8) + 1 THEN 2 ^ (n % 8) ELSE 0]

\* |a - b| on u64.
AbsDiff(a0, b0) ==
    The({ IF U64Less(a, b) THEN wrapping_sub(b, a) ELSE wrapping_sub(a, b)
          : a \in {a0}, b \in {b0} })

\* Whether the positive f32 a is a nearest f32 to n / 1_000_000, 0 < n < 10^6:
\* |a.m * 2^a.e - n / 10^6| <= 2^a.e / 2, that is
\* |a.m * 10^6 - n * 2^(-a.e)| <= 10^6 / 2.
NearestToMillionth(a, n) ==
    /\ a.k = "fin" /\ a.s = 0 /\ a.e < 0 /\ a.e > 0 - 63
    /\ The({ IsSmall(d) /\ 2 * NatOfU64(d) <= Million
             : d \in {AbsDiff(wrapping_mul(U64OfNat(a.m), U64OfNat(Million)),
                              wrapping_mul(U64OfNat(n), Pow2U64(0 - a.e)))} })

\* ------------------------------------------------------------ claims

Done(op) == pc = "done" /\ call.op = op

\* C1: gen is a function of (seed, key) only.  No operation changes the seed
\* of a generator: a and its copy b keep the seed they were constructed with;
\* and every gen(k) on either returns what the first gen(k) on either
\* returned, whatever was called in between.
C1_GenDependsOnSeedAndKeyOnly ==
    /\ \A h \in Insts : rng[h].seed = made[h]
    /\ made["a"] = made["b"]
    /\ Done("gen") => ret.ok /\ ret.v = first[call.x].v

\* A gen(k) on one generator after the first gen(k) was drawn on the other.
C1_Witness ==
    /\ Done("gen")
    /\ first[call.x].by # "none"
    /\ first[call.x].by # call.self

\* C2: gen(key) = mix64((seed + hash(key)) mod 2^64), all arithmetic modulo
\* 2^64, and the call never fails.
C2_GenIsMix64OfSeedPlusHash ==
    Done("gen") =>
        /\ ret.ok
        /\ ret.v = OfBits(RefMix64(RefAdd(Bits(rng[call.self].seed), Bits(hash(call.x)))))

\* A gen whose seed + hash(key) does not fit 64 bits.
C2_Witness ==
    /\ Done("gen")
    /\ ret.ok
    /\ add_overflows(rng[call.self].seed, hash(call.x))

\* C3 as stated: choose reads index (gen(key) mod 2^32) mod len(choices).
C3_Original ==
    (Done("choose") /\ Len(call.choices) > 0) =>
        /\ ret.ok
        /\ ret.idx = U64OfNat(ModSmall(RefModPow32(Drawn), Len(call.choices)))

\* C3, amended: choose returns the element at index
\* (gen(key) mod (2^32 - 1)) mod len(choices): the modulus is u32::MAX, not 2^32.
C3_ChooseIndex ==
    (Done("choose") /\ Len(call.choices) > 0) =>
        /\ ret.ok
        /\ ret.idx = U64OfNat(ModSmall(RefModU32Max(Drawn), Len(call.choices)))
        /\ ret.v = call.choices[NatOfU64(ret.idx) + 1]

\* A choose among several elements where the two moduli give different indices.
C3_Witness ==
    /\ Done("choose")
    /\ Len(call.choices) > 1
    /\ ret.ok
    /\ ret.idx # U64OfNat(ModSmall(RefModPow32(Drawn), Len(call.choices)))

\* C4: shuffle of a slice of length 0 or 1 returns normally and leaves the
\* slice as it was.
C4_ShuffleShortIsNoOp ==
    (Done("shuffle") /\ Len(call.xs) <= 1) => ret.ok /\ xs = call.xs

\* C5: shuffle of a slice of length len >= 2 runs i = 0 .. len-2; iteration i
\* draws j = i + (gen((key, i)) as usize) mod (len - i), so i <= j <= len-1,
\* and swaps; it ends after len-1 iterations, without failure, and the slice
\* holds the elements it held before.
C5_ShuffleIsPermutation ==
    (call.op = "shuffle" /\ Len(call.xs) >= 2) =>
        /\ ret.ok
        /\ SameMultiset(xs, call.xs)
        /\ pc = "shuffle" => loop.steps = loop.i /\ loop.i <= Len(xs) - 2
        /\ pc = "done" => loop.steps = Len(xs) - 1
        /\ loop.steps >= 1 =>
              /\ loop.steps - 1 <= loop.j
              /\ loop.j <= Len(xs) - 1
              /\ loop.j = (loop.steps - 1)
                          + ModSmall(as_usize(gen(rng[call.self],
                                                  Append(call.x, U64OfNat(loop.steps - 1))),
                                              build),
                                     Len(xs) - (loop.steps - 1))

\* A finished shuffle of a longest slice that moved its elements.
C5_Witness ==
    /\ Done("shuffle")
    /\ Len(call.xs) = MaxLen
    /\ ret.ok
    /\ xs # call.xs

\* max - min + 1 as a u64 (0 when the range is all of u64).
RangeWidth(min, max) == wrapping_add(wrapping_sub(max, min), U64OfNat(1))

\* min + (g mod (max - min + 1)); the modulus 2^64 leaves g as it is.
RefInRange(g0, min, max) ==
    The({ IF w = U64Zero THEN g ELSE wrapping_add(min, rem(g, w))
          : g \in {g0}, w \in {RangeWidth(min, max)} })

\* C6: for min <= max, up to the largest usize, gen_usize_range returns,
\* without overflow or division by zero, min + (gen(key) mod (max - min + 1)),
\* a value r with min <= r <= max.
C6_UsizeRangeTotal ==
    (Done("gen_usize_range") /\ ~U64Less(call.max, call.min)) =>
        /\ ret.ok
        /\ ret.v = RefInRange(Drawn, call.min, call.max)
        /\ ~U64Less(ret.v, call.min)
        /\ ~U64Less(call.max, ret.v)

\* C7 as stated: gen_froggy with n = 0 fails.
C7_Original == (Done("gen_froggy") /\ call.n = 0) => ~ret.ok

\* C7, amended: gen_froggy with n = 0 does not fail; min / 0.0 and max / 0.0
\* are float divisions (an infinity or NaN, never used), the loop runs no
\* iteration, and the call returns the empty sum 0.0.
C7_FroggyZeroDrawsIsZero ==
    (Done("gen_froggy") /\ call.n = 0) => ret.ok /\ ret.v = F32Zero(0)

\* A gen_froggy with n = 0 and a nonzero min, so that min / 0.0 is infinite.
C7_Witness ==
    /\ Done("gen_froggy")
    /\ call.n = 0
    /\ call.min.m # 0
    /\ f32_div(call.min, F32OfNat(call.n)).k = "inf"

\* C8: choose on an empty slice fails on the remainder by the zero length; it
\* returns no element and reads no index.
C8_ChooseEmptyFails ==
    (Done("choose") /\ Len(call.choices) = 0) =>
        /\ ~ret.ok
        /\ ret.why = "rem_by_zero"
        /\ ret.v = <<>>
        /\ ret.idx = <<>>

\* A finished choose on the empty slice.
C8_Witness == Done("choose") /\ Len(call.choices) = 0 /\ ~ret.ok

====
